---- MODULE Spec2Model ----
(***************************************************************************)
(* VideoProc: the frame-rate resampler (video.py, NormalVideoCapture) and  *)
(* the clip-boundary loop (main.py, find_changes).                         *)
(*                                                                         *)
(* Units.  Time (datetime.timedelta) is an integer number of microseconds, *)
(* which is timedelta's own resolution.  A position in the source stream   *)
(* (_cur_pos, _next_pos: Python floats) is the double itself, held as a    *)
(* sign and a whole number of 2^-80 of a source frame, and every sum,      *)
(* product and quotient of doubles is rounded to 53 significant bits as    *)
(* the hardware rounds it.  What the code derives from a position through  *)
(* round(.., 2) is an integer number of hundredths of a source frame.      *)
(*                                                                         *)
(* A source frame is a uniformly coloured picture, given by its intensity  *)
(* 0..255; cv2.VideoCapture hands out the frames src[1], src[2], ...       *)
(* (source frame i of the code, counted from 0, is src[i+1]).              *)
(***************************************************************************)
EXTENDS Integers, Sequences, FiniteSets, TLC

VARIABLES
    src,        \* the decoded source video: a sequence of intensities
    fps,        \* cap.get(CAP_PROP_FPS), the native rate
    target_fps, \* find_changes' target_fps
    padding,    \* find_changes' queue_padding_in_seconds, in microseconds
    v,          \* the NormalVideoCapture object (cap is the decoder's position)
    ret,        \* what the last v.read() returned: [s |-> success, f |-> frame]
    pc,         \* where the run stands
    backlog,    \* find_changes' backlog queue
    last_frame, \* find_changes' last_frame (NoFrame is None)
    det,        \* the locals set at a detection (main.py:88-99)
    back_pad,   \* find_changes' back_pad
    end_time,   \* find_changes' end_time
    vw,         \* the open cv2.VideoWriter objects (their file stems)
    dir,        \* the output folder: a set of files
    err,        \* the exception that ended the run ("" when none)
    run,        \* which run over this source this is (1, 2, ...)
    hist        \* history: what the claims need to remember of the past

vars == << src, fps, target_fps, padding, v, ret, pc, backlog, last_frame,
           det, back_pad, end_time, vw, dir, err, run, hist >>

Sec == 1000 * 1000          \* one second, in microseconds
None == -1                  \* Python's None, where a frame index is expected

(***************************************************************************)
(* Bounds of the model.                                                    *)
(***************************************************************************)
MaxFrames == 8    \* resampler specification: longest source, in frames
MaxFps == 5       \* resampler specification: largest native rate
MaxFails == 2     \* exhausted reads followed in the resampler specification
MaxReads == 19    \* frames read by one run (read() need not ever exhaust)
MaxTail == 2      \* resampler specification: frames a resumed clip ran past 5 s
MaxLen == 8       \* pipeline specification: length of the source pattern
MaxRuns == 2      \* runs of find_changes over the same source

Targets == {1, 2, 4}        \* target rates: fps/target_fps is a multiple of 0.25

(***************************************************************************)
(* Arithmetic of the Python built-ins the code uses.                       *)
(***************************************************************************)
Max(a, b) == IF a >= b THEN a ELSE b
Min(a, b) == IF a <= b THEN a ELSE b
Abs(a) == IF a >= 0 THEN a ELSE -a

\* frames one run of find_changes may read: the whole source at least; the
\* bound only stops the runs whose read() never exhausts
ReadLimit(s) == Max(MaxReads, Len(s) + 1)

\* math.ceil of a position given in hundredths of a frame
Ceil100(p) == -((-p) \div 100)

\* n/d (d > 0) truncated toward zero, in exact arithmetic
TruncDiv(n, d) == IF n >= 0 THEN n \div d ELSE -((-n) \div d)

\* n/d (d > 0) rounded to the nearest integer, ties to even: cv2's
\* saturate_cast rounding, and round(x, 2) of a double that is n/d exactly
RoundHalfEven(n, d) ==
    LET q == n \div d
        r == n % d
    IN  IF 2 * r < d THEN q
        ELSE IF 2 * r > d THEN q + 1
        ELSE IF q % 2 = 0 THEN q ELSE q + 1

\* floor(log2(n)), n >= 1
RECURSIVE Log2(_)
Log2(n) == IF n <= 1 THEN 0 ELSE 1 + Log2(n \div 2)

\* floor(log2(d / 10^6)), d >= 1
RECURSIVE LogSec(_)
LogSec(d) == IF d >= Sec THEN Log2(d \div Sec) ELSE LogSec(2 * d) - 1

\* (n * 2^s) % m
RECURSIVE ScaleMod(_, _, _)
ScaleMod(n, s, m) == IF s = 0 THEN n % m ELSE ScaleMod((2 * n) % m, s - 1, m)

\* int(duration.total_seconds() * c) in double arithmetic, for a duration of
\* d >= 0 microseconds and a whole number c >= 1.  total_seconds() is the
\* double x nearest to d / 10^6: x = m / 2^s with 2^52 <= m < 2^53 and m the
\* integer nearest to d * 2^s / 10^6.  When c * d / 10^6 is no whole number
\* it lies at least 10^-6 from one and the rounding errors do not change the
\* truncation.  When it is the whole number n, c * x = n - c * r / (10^6 * 2^s)
\* for the remainder r of d * 2^s by 10^6 if m was rounded down (r below
\* 10^6 / 2; r = 10^6 / 2 cannot be, 64 divides d * 2^s), and c * x >= n if m
\* was rounded up.  The multiplication rounds the product back to n unless
\* it lies more than half the gap between n and the double below n under n
\* (a tie goes to n, whose significand is even); then int() gives n - 1.
FloatScaled(d, c) ==
    LET lo == c * (d % Sec)
        n == c * (d \div Sec) + lo \div Sec
    IN  IF d = 0 \/ lo % Sec # 0 THEN n
        ELSE LET e == Log2(n)
                 ep == LogSec(d)
                 r == ScaleMod(d, 52 - ep, Sec)
                 gap == IF n = 2^e THEN 4 ELSE 2
             IN  IF r > 0 /\ 2 * r < Sec /\ gap * c * r > 2^(e - ep) * Sec
                 THEN n - 1 ELSE n

(***************************************************************************)
(* Whole numbers beyond the range of the machine integers: sequences of    *)
(* digits to the base 2^20, lowest digit first, no leading zero digit.     *)
(***************************************************************************)
Base == 2^20

Limb(a, i) == IF i <= Len(a) THEN a[i] ELSE 0

RECURSIVE Trim(_)
Trim(a) ==
    IF a = << >> THEN a
    ELSE IF a[Len(a)] # 0 THEN a
    ELSE Trim(SubSeq(a, 1, Len(a) - 1))

\* the digits of n, 0 <= n < 2^31, and the number that one or two digits give
Big(n) == Trim(<< n % Base, n \div Base >>)
Small(a) == Limb(a, 1) + Base * Limb(a, 2)

RECURSIVE AddFrom(_, _, _, _)
AddFrom(a, b, i, carry) ==
    IF i > Len(a) /\ i > Len(b)
    THEN IF carry = 0 THEN << >> ELSE << carry >>
    ELSE LET t == Limb(a, i) + Limb(b, i) + carry
         IN  << t % Base >> \o AddFrom(a, b, i + 1, t \div Base)

BigAdd(a, b) == AddFrom(a, b, 1, 0)

RECURSIVE SubFrom(_, _, _, _)
SubFrom(a, b, i, borrow) ==
    IF i > Len(a) THEN << >>
    ELSE LET t == a[i] - Limb(b, i) - borrow
         IN  << (t + Base) % Base >> \o SubFrom(a, b, i + 1, IF t < 0 THEN 1 ELSE 0)

\* a - b, for a >= b
BigSub(a, b) == Trim(SubFrom(a, b, 1, 0))

RECURSIVE LessFrom(_, _, _)
LessFrom(a, b, i) ==
    IF i = 0 THEN FALSE
    ELSE IF a[i] # b[i] THEN a[i] < b[i]
    ELSE LessFrom(a, b, i - 1)

BigLess(a, b) ==
    IF Len(a) # Len(b) THEN Len(a) < Len(b) ELSE LessFrom(a, b, Len(a))

RECURSIVE MulFrom(_, _, _, _)
MulFrom(a, c, i, carry) ==
    IF i > Len(a) THEN IF carry = 0 THEN << >> ELSE << carry >>
    ELSE LET t == a[i] * c + carry
         IN  << t % Base >> \o MulFrom(a, c, i + 1, t \div Base)

\* a * c, for 0 <= c <= 1000
BigMul(a, c) == IF c = 0 THEN << >> ELSE MulFrom(a, c, 1, 0)

RECURSIVE DivFrom(_, _, _, _)
DivFrom(a, c, i, r) ==
    IF i = 0 THEN [q |-> << >>, r |-> r]
    ELSE LET t == r * Base + a[i]
             rest == DivFrom(a, c, i - 1, t % c)
         IN  [q |-> rest.q \o << t \div c >>, r |-> rest.r]

\* quotient and remainder of a by c, for 1 <= c <= 1000
BigDiv(a, c) ==
    LET d == DivFrom(a, c, Len(a), 0) IN [q |-> Trim(d.q), r |-> d.r]

\* a * 2^(20 * k)
Shift(a, k) == IF a = << >> THEN a ELSE [i \in 1..k |-> 0] \o a

\* the digits of a from digit k + 1 on, and its k lowest digits
High(a, k) == IF Len(a) <= k THEN << >> ELSE SubSeq(a, k + 1, Len(a))
Low(a, k) == Trim(SubSeq(a, 1, Min(k, Len(a))))

\* 2^n
PowTwo(n) == [i \in 1..(n \div 20 + 1) |-> IF i = n \div 20 + 1 THEN 2^(n % 20) ELSE 0]

BitLen(a) == IF a = << >> THEN 0 ELSE 20 * (Len(a) - 1) + Log2(a[Len(a)]) + 1

\* a, with half a unit of its digit k + 1 added when its k lowest digits are
\* more than half a unit, or are half a unit and digit k + 1 is odd: the
\* whole number nearest to a / 2^(20 * k), ties to the even one
NearestHigh(a, k) ==
    LET hi == High(a, k)
        lo == Low(a, k)
        half == PowTwo(20 * k - 1)
    IN  IF BigLess(half, lo) \/ (lo = half /\ Limb(hi, 1) % 2 = 1)
        THEN BigAdd(hi, << 1 >>) ELSE hi

(***************************************************************************)
(* Doubles.  x = s * m / 2^80 with s the sign (1 or -1) and m a whole      *)
(* number of at most 53 significant bits; zero has s = 1.                  *)
(***************************************************************************)
Zero == [s |-> 1, m |-> << >>]

\* a whole number of 2^-20 below 2^10: 30 significant bits at most, and the
\* number of 2^-20 that it is
IsShort(m) ==
    Len(m) <= 5 /\ Limb(m, 1) = 0 /\ Limb(m, 2) = 0 /\ Limb(m, 3) = 0
                /\ Limb(m, 5) < 1024
ShortVal(m) == Limb(m, 4) + Base * Limb(m, 5)

\* m with its n lowest bits rounded away, n >= 1, ties to even; sticky: the
\* exact value lies above m by less than one unit
RoundAway(m, sticky, n) ==
    LET k == n \div 20
        j == n % 20
        hk == (n - 1) \div 20 + 1
        hj == (n - 1) % 20
        halfset == (m[hk] \div 2^hj) % 2 = 1
        rest == (m[hk] % 2^hj) # 0 \/ \E i \in 1..(hk - 1) : m[i] # 0
        odd == (m[k + 1] \div 2^j) % 2 = 1
        kept == [i \in 1..Len(m) |->
                   IF i <= k THEN 0
                   ELSE IF i = k + 1 THEN m[i] - (m[i] % 2^j)
                   ELSE m[i]]
    IN  IF halfset /\ (rest \/ sticky \/ odd)
        THEN BigAdd(kept, PowTwo(n)) ELSE kept

\* m rounded to 53 significant bits, ties to even
Round53(m, sticky) ==
    IF IsShort(m) /\ ~sticky THEN m
    ELSE IF BitLen(m) <= 53 THEN m
    ELSE RoundAway(m, sticky, BitLen(m) - 53)

\* the double nearest to a quotient qr.q that left the remainder qr.r, an
\* earlier division having left the remainder r
RoundQuotient(qr, r) == Round53(qr.q, r # 0 \/ qr.r # 0)

\* the double nearest to n / d, for whole numbers 0 <= n < 2^31, 1 <= d <= 1000
FromRatio(n, d) ==
    IF n < 1024 /\ (n * Base) % d = 0               \* the quotient is exact
    THEN [s |-> 1, m |-> Shift(Big((n * Base) \div d), 3)]
    ELSE [s |-> 1, m |-> RoundQuotient(BigDiv(Shift(Big(n), 4), d), 0)]

\* the double nearest to a thousandth of the quotient q1
Thousandth(q1) == RoundQuotient(BigDiv(q1.q, 1000), q1.r)

\* duration.total_seconds(): the double nearest to d / 10^6
total_seconds(d) ==
    [s |-> IF d >= 0 THEN 1 ELSE -1,
     m |-> Thousandth(BigDiv(Shift(Big(Abs(d)), 4), 1000))]

\* x * c for a whole number 0 <= c <= 1000
FloatMul(x, c) ==
    IF c = 0 \/ x.m = << >> THEN Zero ELSE [s |-> x.s, m |-> Round53(BigMul(x.m, c), FALSE)]

\* x + y in exact arithmetic, as a sign and a magnitude
Sum(x, y) ==
    IF x.s = y.s THEN [s |-> x.s, m |-> BigAdd(x.m, y.m)]
    ELSE IF x.m = y.m THEN Zero
    ELSE IF BigLess(y.m, x.m) THEN [s |-> x.s, m |-> BigSub(x.m, y.m)]
    ELSE [s |-> y.s, m |-> BigSub(y.m, x.m)]

Rounded(z) == [s |-> z.s, m |-> Round53(z.m, FALSE)]

\* x + y
FloatAdd(x, y) ==
    IF x.s = y.s /\ IsShort(x.m) /\ IsShort(y.m)
    THEN [s |-> x.s, m |-> Shift(Big(ShortVal(x.m) + ShortVal(y.m)), 3)]
    ELSE Rounded(Sum(x, y))

\* round(x, 2), in hundredths: the whole number of hundredths nearest to the
\* double, ties to even
round2(x) ==
    IF IsShort(x.m)
    THEN x.s * (100 * Limb(x.m, 5) + RoundHalfEven(100 * Limb(x.m, 4), Base))
    ELSE x.s * Small(NearestHigh(BigMul(x.m, 100), 4))

\* x % 1.0: fmod(x, 1.0), and 1.0 added to it when it is negative
mod1(x) ==
    LET fr == Low(x.m, 4)
    IN  IF x.s = 1 \/ fr = << >> THEN [s |-> 1, m |-> fr]
        ELSE [s |-> 1, m |-> Round53(BigSub(PowTwo(80), fr), FALSE)]

Million(a) == BigMul(BigMul(a, 1000), 1000)

\* the microseconds of t seconds, t a double in units of 2^-100: 10^6 for each
\* whole second, and the double nearest to 10^6 times the fraction, the sum
\* rounded to the nearest whole number, ties to even
Microseconds(t) ==
    Small(NearestHigh(BigAdd(Shift(Million(High(t, 5)), 5),
                             Round53(Million(Low(t, 5)), FALSE)), 5))

\* timedelta(seconds = x / c) in microseconds, for a whole number 1 <= c <= 1000:
\* the quotient is a double; its whole seconds count exactly, its fraction is
\* multiplied by 10^6 as a double and rounded to the nearest whole number,
\* ties to even.  A double below 2^-27 gives less than half a microsecond.
seconds_to_us(x, c) ==
    IF IsShort(x.m) /\ ShortVal(x.m) % (16384 * c) = 0
    THEN \* a whole number of 2^-6 seconds: every step is exact
         x.s * (ShortVal(x.m) \div (16384 * c)) * 15625
    ELSE IF BitLen(x.m) <= 53 THEN 0
    ELSE x.s * Microseconds(RoundQuotient(BigDiv(Shift(x.m, 1), c), 0))

(***************************************************************************)
(* Frames.  The resampler keeps raw source frames, named by their index    *)
(* (None when it holds no frame).  A frame it returns is either a source   *)
(* frame unmodified (w = 0, a = b) or cv2.addWeighted(a, w, b, 1 - w, 0),  *)
(* w in hundredths.                                                        *)
(***************************************************************************)
NoFrame == [a |-> None, b |-> None, w |-> 0]
Original(i) == IF i = None THEN NoFrame ELSE [a |-> i, b |-> i, w |-> 0]

addWeighted(cur, weight, next) == [a |-> cur, b |-> next, w |-> weight]

\* the intensity of a returned frame (uint8, saturated and rounded)
Pixel(f) ==
    IF f.w = 0 THEN src[f.a + 1]
    ELSE Min(255, Max(0,
           RoundHalfEven(f.w * src[f.a + 1] + (100 - f.w) * src[f.b + 1], 100)))

(***************************************************************************)
(* NormalVideoCapture (video.py).                                          *)
(***************************************************************************)
NewCapture ==
    [ cap |-> 0,                \* frames the wrapped cv2.VideoCapture has handed out
      _cur_pos |-> Zero, _cur_frame |-> None,
      _next_pos |-> Zero, _next_frame |-> None,
      _read_count |-> 0, _orig_frames_read |-> 0 ]

total == Len(src)

\* incr = self.fps / self.target_fps  (incrMutSwap: the ratio inverted)
incrMutSwap == FromRatio(target_fps, fps)
incr == FromRatio(fps, target_fps)

frames_read(r) == r._read_count

\* time_read: timedelta(seconds = pos / fps), in microseconds
time_read(r) == seconds_to_us(r._next_pos, fps)

\* read_original: the next decoded frame, or the fallback, or None
read_original(r, use_fallback) ==
    IF r.cap < total
    THEN [ r |-> [r EXCEPT !.cap = @ + 1, !._orig_frames_read = @ + 1],
           f |-> r.cap ]
    ELSE [ r |-> r, f |-> IF use_fallback THEN r._cur_frame ELSE None ]

\* _return_frame
_return_frame(r, f) ==
    IF f.a # None
    THEN [ r |-> [r EXCEPT !._read_count = @ + 1], s |-> TRUE, f |-> f,
           raised |-> FALSE ]
    ELSE [ r |-> r, s |-> FALSE, f |-> NoFrame, raised |-> FALSE ]

\* skip_n = ceil(round(_next_pos, 2)) - ceil(round(_cur_pos, 2))
skip_n(r) == Ceil100(round2(r._next_pos)) - Ceil100(round2(r._cur_pos))

\* the loop "for _ in range(skip_n)": ok is FALSE when it returned False, None
RECURSIVE SkipLoop(_, _)
SkipLoop(r, n) ==
    IF n <= 0 THEN [ok |-> TRUE, r |-> r]
    ELSE IF r._next_frame # None
    THEN SkipLoop([r EXCEPT !._cur_frame = r._next_frame, !._next_frame = None],
                  n - 1)
    ELSE LET o == read_original(r, FALSE)
             r2 == [o.r EXCEPT !._cur_frame = o.f]
         IN  IF o.f = None THEN [ok |-> FALSE, r |-> r2]
             ELSE SkipLoop(r2, n - 1)

\* weight = round(_next_pos % 1.0, 2), in hundredths  (weightMutHalf: a
\* position on a whole frame is blended half and half)
weightMutHalf(r) ==
    IF round2(mod1(r._next_pos)) = 0 THEN 50 ELSE round2(mod1(r._next_pos))
weight(r) == round2(mod1(r._next_pos))

\* read() after its loop (video.py:94-111), the loop having run n times and
\* left lp, with the weight w.  After a skip() the frame held for the current
\* position can be None when the blend is reached: cv2.addWeighted then
\* raises (raised), _next_frame already assigned, and read() returns nothing.
Interpolate(lp, n, w) ==
    LET r2 == lp.r
    IN  IF ~lp.ok THEN [r |-> r2, s |-> FALSE, f |-> NoFrame, raised |-> FALSE]
        ELSE IF w = 0 THEN _return_frame(r2, Original(r2._cur_frame))
        ELSE LET o == read_original(r2, n > 0)
                 r3 == [o.r EXCEPT !._next_frame = o.f]
             IN  IF o.f = None
                 THEN [r |-> o.r, s |-> FALSE, f |-> NoFrame, raised |-> FALSE]
                 ELSE IF r2._cur_frame = None
                 THEN [r |-> r3, s |-> FALSE, f |-> NoFrame, raised |-> TRUE]
                 ELSE _return_frame(r3, addWeighted(r2._cur_frame, w, o.f))

\* read() from its loop on (video.py:83-111), skip_n being n
Consume(r1, n) == Interpolate(SkipLoop(r1, n), n, weight(SkipLoop(r1, n).r))

\* read() once the positions are updated (video.py:83-111)
Seek(r1) == Consume(r1, skip_n(r1))

\* read(): the new object state r, the success flag s and the frame f
read(r0) ==
    IF r0._cur_frame = None
    THEN LET o == read_original(r0, FALSE)
         IN  _return_frame([o.r EXCEPT !._cur_frame = o.f], Original(o.f))
    ELSE Seek([r0 EXCEPT !._cur_pos = r0._next_pos,
                         !._cur_frame = r0._next_frame,
                         !._next_pos = FloatAdd(r0._next_pos, incr)])

\* skip() with its loop run n times and the offset computed
Grabbed(r, n, offset) ==
    [ r |-> [r EXCEPT !.cap = Min(total, r.cap + n),
                      !._orig_frames_read = @ + n,
                      !._cur_pos = FloatAdd(@, offset),
                      !._next_pos = FloatAdd(@, offset)],
      success |-> (r.cap + n <= total),
      count |-> n ]

\* skip(duration): duration in microseconds
skip(r, duration) ==
    Grabbed(r, IF duration > 0 THEN FloatScaled(duration, fps) ELSE 0,
               \* range(int(duration.total_seconds() * self.fps))
            FloatMul(total_seconds(duration), target_fps))

(***************************************************************************)
(* The orchestrator's arithmetic (main.py), shared by both specifications. *)
(***************************************************************************)
MIN_SIGNIFICANT_FRAME_LENGTH == 5 * Sec

\* pad = queue_padding_in_seconds.seconds * target_fps  (paddings under a day)
pad == (padding \div Sec) * target_fps

\* start_offset = max(timestamp_indicator - queue_padding_in_seconds, 0)
start_offset(ts) == Max(ts - padding, 0)

\* the name of a finalized clip encodes int(duration.total_seconds() * 100)
EncodeDuration(d) ==
    IF d >= 0 THEN FloatScaled(d, 100) ELSE -FloatScaled(-d, 100)

\* parse_video_clip_file: timedelta(seconds = float(dur[1:]) / 100)
parse_video_clip_file(file) == file.dur * 10000

\* main.py:104-107: the duration handed to skip() on the resume path
remaining(file, ts, so) == parse_video_clip_file(file) - (ts - so) - padding

\* a file of the output folder: the clip's start (whole seconds after the
\* recording's start, as the name's timestamp has it) and, for a finalized
\* clip, the encoded duration; channel and rate are those of this source
NoDur == None
InProgress(start) == [start |-> start, dur |-> NoDur]
Finalized(start, d) == [start |-> start, dur |-> d]
Stem(so) == so \div Sec

(***************************************************************************)
(* History kept for the properties.                                        *)
(***************************************************************************)
\* what of the object decides the outcome of read() and of every later read():
\* the decoder's position, the two frames held and the intra-frame position
\* (skip_n and weight do not change when _next_pos moves by whole frames
\* and the additions are exact)
Outlook(r) ==
    [ cap |-> r.cap, cur |-> r._cur_frame, next |-> r._next_frame,
      frac |-> mod1(r._next_pos) ]

NoHist ==
    [ fails |-> 0,          \* exhausted reads so far in this run
      firstExhaust |-> None,\* frames_read at the first exhausted read
      skips |-> 0,          \* successful calls of skip()
      skipArg |-> 0,        \* the duration last handed to skip()
      tBeforeSkip |-> 0,    \* time_read just before that call
      readsSinceSkip |-> 0, \* read() calls since it
      prevEnd |-> "none",   \* how find_changes ended in the previous run
      killedAt |-> "none",  \* where this run stood when the process was killed
      dir0 |-> {},          \* the folder as this run found it
      firstDir |-> {},      \* the folder as the very first run found it
      discards |-> 0,       \* clips discarded in this run
      finals |-> 0,         \* clips finalized in this run
      skipCount |-> 0,      \* the count that call of skip() returned
      skipOk |-> FALSE,     \* the success flag it returned
      capBeforeSkip |-> 0,  \* source frames consumed before that call
      prevRead |-> NoFrame, \* the frame the last successful read() returned
      before |-> NoFrame,   \* the frame read immediately before the last one
      baseline |-> NoFrame, \* the baseline the change detector was given for
                            \* the last frame read (NoFrame: it was not called)
      stale |-> None,       \* the clip a killed previous run was recording
      early |-> FALSE,      \* the open clip was detected before the backlog had filled
      cur |-> {},           \* the resampled frames written to the open clip
      clips |-> {},         \* the clips finalized in this run, with their frames
      marked |-> FALSE,     \* a read() has succeeded with the decoder drained
      mark |-> Outlook(NewCapture), \* the object's outlook after the first such read
      markAt |-> 0 ]        \* frames_read after it

AfterRead(h, res) ==
    [h EXCEPT !.fails = IF res.s THEN @ ELSE @ + 1,
              !.firstExhaust = IF ~res.s /\ @ = None
                               THEN res.r._read_count ELSE @,
              !.readsSinceSkip = IF h.skips > 0 THEN @ + 1 ELSE @,
              !.before = h.prevRead,
              !.prevRead = IF res.s THEN res.f ELSE @,
              !.baseline = NoFrame,
              !.marked = @ \/ (res.s /\ res.r.cap = total),
              !.mark = IF ~h.marked /\ res.s /\ res.r.cap = total
                       THEN Outlook(res.r) ELSE @,
              !.markAt = IF ~h.marked /\ res.s /\ res.r.cap = total
                         THEN res.r._read_count ELSE @]

\* read() was called and raised
AfterRaise(h) == [h EXCEPT !.readsSinceSkip = IF h.skips > 0 THEN @ + 1 ELSE @]

\* the change detector was called on the frame just read, with baseline base
Compared(h, base) == [h EXCEPT !.baseline = base]

(***************************************************************************)
(* The resampler on its own: read() and skip() called directly.            *)
(***************************************************************************)
Paddings == {0, Sec \div 2, Sec, 7 * Sec}

\* a source of k frames whose frames all differ from their neighbours
Ramp(k) == [i \in 1..k |-> ((i - 1) * 40) % 256]

NoDet == [start_frame_idx |-> 0, timestamp_indicator |-> 0, start_offset |-> 0,
          filename |-> None, files |-> 0]

\* with a tenth of a second among the paddings the resume path hands skip()
\* durations that no double holds exactly
RSPaddings == Paddings \cup {Sec \div 10}

RSInit ==
    /\ src \in {Ramp(k) : k \in 1..MaxFrames}
    /\ fps \in 1..MaxFps
    /\ target_fps \in Targets
    /\ padding \in RSPaddings
    /\ v = NewCapture
    /\ ret = [s |-> FALSE, f |-> NoFrame]
    /\ pc = "rs"
    /\ backlog = << >>
    /\ last_frame = NoFrame
    /\ det = NoDet
    /\ back_pad = 0
    /\ end_time = 0
    /\ vw = {}
    /\ dir = {}
    /\ err = ""
    /\ run = 1
    /\ hist = NoHist

\* read() has answered res: an exception ends the calls
Returned(res) ==
    /\ v' = res.r
    /\ IF res.raised
       THEN err' = "cv2.error" /\ ret' = ret /\ hist' = AfterRaise(hist)
       ELSE /\ ret' = [s |-> res.s, f |-> res.f]
            /\ hist' = AfterRead(hist, res)
            /\ err' = err

RSRead ==
    /\ pc = "rs"
    /\ hist.fails < MaxFails
    /\ frames_read(v) < MaxReads
    /\ err = ""
    /\ Returned(read(v))
    /\ UNCHANGED << src, fps, target_fps, padding, pc, backlog, last_frame,
                    det, back_pad, end_time, vw, dir, run >>

\* what is left, at the detection time ts, of a clip that ran 5 s past ts
\* and k more frames (main.py:103-107)
Left(ts, k) ==
    LET so == start_offset(ts)
        prev == MIN_SIGNIFICANT_FRAME_LENGTH + (ts - so) + (k * Sec) \div target_fps
        file == Finalized(Stem(so), EncodeDuration(prev))
    IN  remaining(file, ts, so)

\* skip(d) has answered res
Skipped(ts, d, res) ==
    /\ v' = res.r
    /\ hist' = [hist EXCEPT !.skips = @ + 1, !.skipArg = d,
                            !.tBeforeSkip = ts, !.readsSinceSkip = 0,
                            !.skipCount = res.count,
                            !.skipOk = res.success,
                            !.capBeforeSkip = v.cap]

\* v.skip(d) at the detection time ts (main.py:110)
Resumed(ts, d) == Skipped(ts, d, skip(v, d))

\* A clip that find_changes finalized at the detection time ts ran at least
\* 5 s past ts and k more frames; the resume path of a later run over the
\* same source hands skip() what is left of it (main.py:103-110).
RSSkip(k) ==
    /\ pc = "rs"
    /\ hist.skips = 0
    /\ hist.fails = 0
    /\ ret.s
    /\ Resumed(time_read(v), Left(time_read(v), k))
    /\ UNCHANGED << src, fps, target_fps, padding, ret, pc, backlog, last_frame,
                    det, back_pad, end_time, vw, dir, err, run >>

RSNext == RSRead \/ \E k \in 1..MaxTail : RSSkip(k)

SpecRS == RSInit /\ [][RSNext]_vars

(***************************************************************************)
(* find_changes (main.py): one run over the source, and the runs after it. *)
(* black_out_timestamps keeps its default, False.                          *)
(***************************************************************************)
\* has_significant_change, on uniformly coloured frames: every pixel of the
\* difference picture is over the threshold of 5, or none is
has_significant_change(frame, last) ==
    LET total_pixels == 1
        changed_pixel_cnt == IF Abs(Pixel(frame) - Pixel(last)) > 5
                             THEN total_pixels ELSE 0
    IN  100 * changed_pixel_cnt > 3 * total_pixels

\* queue.Queue(maxsize = pad).full(): a maxsize of 0 or less is "no limit"
full(q) == 0 < pad /\ pad <= Len(q)

\* if backlog.full(): backlog.get() ; backlog.put(f)
Admit(q, f) == IF full(q) THEN Append(Tail(q), f) ELSE Append(q, f)

\* list(filename.parent.glob(f"{filename.stem}-*.avi")): the finalized clips
\* of the output folder d that carry the stem  (globMutNone: none is found)
globMutNone(d, stem) == {}
glob(d, stem) == {x \in d : x.start = stem /\ x.dur # NoDur}

\* filename.unlink()
unlink(d, stem) == d \ {InProgress(stem)}

\* shutil.move(filename, new_filename)  (moveMutCopy: the file is copied)
moveMutCopy(d, stem, dur) == d \cup {Finalized(stem, dur)}
move(d, stem, dur) == (d \ {InProgress(stem)}) \cup {Finalized(stem, dur)}

\* if significant_frame_length < MIN_SIGNIFICANT_FRAME_LENGTH: discard
\* (TooShortMutNever: no clip is too short)
TooShortMutNever(span) == FALSE
TooShort(span) == span < MIN_SIGNIFICANT_FRAME_LENGTH

\* the sources of the pipeline specification: every element of a pattern of
\* intensities is held for h source frames
Stretch(p, h) == [i \in 1..(Len(p) * h) |-> p[((i - 1) \div h) + 1]]
Patterns == {q \in [1..MaxLen -> {0, 100}] : q[1] = 0}
PipelineRates == { <<1, 1>>, <<2, 1>> }   \* << fps, target_fps >>
InitDirs == { {}, {Finalized(0, 900)}, {Finalized(0, 700), Finalized(0, 900)} }

Init ==
    /\ \E rt \in PipelineRates :
         /\ fps = rt[1]
         /\ target_fps = rt[2]
         /\ src \in {Stretch(p, Max(1, rt[1] \div rt[2])) : p \in Patterns}
    /\ padding \in Paddings
    /\ v = NewCapture
    /\ ret = [s |-> FALSE, f |-> NoFrame]
    /\ pc = "scan"
    /\ backlog = << >>
    /\ last_frame = NoFrame
    /\ det = NoDet
    /\ back_pad = 0
    /\ end_time = 0
    /\ vw = {}
    /\ dir \in InitDirs
    /\ err = ""
    /\ run = 1
    /\ hist = [NoHist EXCEPT !.dir0 = dir, !.firstDir = dir]

\* main.py:100-102: what the number of finalized clips found decides
\* (BranchMutWrite: several finalized clips are not an error)
BranchMutWrite(n) == IF n = 1 THEN "resume" ELSE "write"
Branch(n) == IF n > 1 THEN "raise" ELSE IF n = 1 THEN "resume" ELSE "write"

\* main.py:88-126, after a significant frame f was read in SCANNING
Detect(r, f, q, ts) ==
    LET so == start_offset(ts)
        stem == Stem(so)
        dir1 == unlink(dir, stem)               \* if filename.exists()
        files == glob(dir1, stem)
        d == [start_frame_idx |-> frames_read(r) - 1, timestamp_indicator |-> ts,
              start_offset |-> so, filename |-> stem, files |-> Cardinality(files)]
    IN  /\ det' = d
        /\ IF Branch(Cardinality(files)) = "raise"
           THEN \* raise Exception("Found too many clips with the same timestamp")
                /\ pc' = "aborted" /\ err' = "TooManyClips"
                /\ dir' = dir1 /\ vw' = vw
                /\ hist' = Compared(AfterRead(hist, [s |-> TRUE, r |-> r, f |-> f]),
                                    last_frame)
                /\ UNCHANGED << back_pad, end_time >>
           ELSE IF Branch(Cardinality(files)) = "resume"
           THEN \* v.skip(duration, pad): skip() takes one argument (video.py:113)
                \* and returns two values: TypeError
                /\ pc' = "aborted" /\ err' = "TypeError"
                /\ dir' = dir1 /\ vw' = vw
                /\ hist' = [Compared(AfterRead(hist, [s |-> TRUE, r |-> r, f |-> f]),
                                     last_frame) EXCEPT
                              !.skipArg = remaining(CHOOSE x \in files : TRUE, ts, so),
                              !.tBeforeSkip = ts]
                /\ UNCHANGED << back_pad, end_time >>
           ELSE \* open the writer, write the backlog to it and refill it
                /\ pc' = "rec" /\ err' = err
                /\ vw' = vw \cup {stem}
                /\ dir' = dir1 \cup {InProgress(stem)}
                /\ back_pad' = 0
                /\ end_time' = ts
                /\ hist' = [Compared(AfterRead(hist, [s |-> TRUE, r |-> r, f |-> f]),
                                     last_frame) EXCEPT
                              !.early = ~full(backlog),
                              !.cur = (frames_read(r) - Len(q)) .. (frames_read(r) - 1)]

\* the outer loop's iteration, read() having answered res
Scanned(res) ==
    /\ v' = res.r
    /\ ret' = IF res.raised THEN ret ELSE [s |-> res.s, f |-> res.f]
    /\ IF res.raised
       THEN /\ pc' = "aborted" /\ err' = "cv2.error"
            /\ hist' = AfterRaise(hist)
            /\ UNCHANGED << backlog, last_frame, det, back_pad, end_time,
                            vw, dir >>
       ELSE IF ~res.s
       THEN /\ pc' = "done"
            /\ hist' = AfterRead(hist, res)
            /\ UNCHANGED << backlog, last_frame, det, back_pad, end_time,
                            vw, dir, err >>
       ELSE /\ backlog' = Admit(backlog, res.f)
            /\ IF last_frame = NoFrame
               THEN /\ last_frame' = res.f
                    /\ hist' = AfterRead(hist, res)
                    /\ UNCHANGED << pc, det, back_pad, end_time, vw, dir, err >>
               ELSE /\ last_frame' = last_frame
                    /\ IF ~has_significant_change(res.f, last_frame)
                       THEN /\ hist' = Compared(AfterRead(hist, res), last_frame)
                            /\ UNCHANGED << pc, det, back_pad, end_time,
                                            vw, dir, err >>
                       ELSE Detect(res.r, res.f, backlog', time_read(res.r))

\* one iteration of the outer loop (main.py:71-126)
Scan ==
    /\ pc = "scan"
    /\ frames_read(v) < ReadLimit(src)
    /\ Scanned(read(v))
    /\ UNCHANGED << src, fps, target_fps, padding, run >>

\* the inner loop's iteration, read() having answered res
Recorded(res) ==
    /\ v' = res.r
    /\ ret' = IF res.raised THEN ret ELSE [s |-> res.s, f |-> res.f]
    /\ hist' = IF res.raised THEN AfterRaise(hist)
               ELSE IF ~res.s THEN AfterRead(hist, res)
               ELSE [Compared(AfterRead(hist, res), last_frame) EXCEPT
                       !.cur = @ \cup {frames_read(res.r) - 1}]
    /\ err' = IF res.raised THEN "cv2.error" ELSE err
    /\ IF res.raised
       THEN /\ pc' = "aborted"
            /\ UNCHANGED << backlog, last_frame, back_pad, end_time >>
       ELSE IF ~res.s
       THEN /\ last_frame' = NoFrame
            /\ back_pad' = back_pad + 1
            /\ pc' = "fin"
            /\ UNCHANGED << backlog, end_time >>
       ELSE /\ backlog' = Admit(backlog, res.f)
            /\ IF has_significant_change(res.f, last_frame)
               THEN back_pad' = 0 /\ end_time' = time_read(res.r)
               ELSE back_pad' = back_pad + 1 /\ end_time' = end_time
            /\ last_frame' = res.f
            /\ pc' = pc

\* one iteration of the inner loop "while back_pad < pad" (main.py:129-146)
Record ==
    /\ pc = "rec"
    /\ back_pad < pad
    /\ frames_read(v) < ReadLimit(src)
    /\ Recorded(read(v))
    /\ UNCHANGED << src, fps, target_fps, padding, det, vw, dir, run >>

\* vw.release()  (releaseMutLeak: the writer is never released)
releaseMutLeak(w, stem) == w
release(w, stem) == w \ {stem}

\* main.py:147-160 for a clip of the given duration
Closed(duration) ==
    LET stem == det.filename
        significant_frame_length == end_time - det.timestamp_indicator
    IN  /\ vw' = release(vw, stem)
        /\ IF TooShort(significant_frame_length)
           THEN /\ dir' = unlink(dir, stem)
                /\ hist' = [hist EXCEPT !.discards = @ + 1, !.cur = {}]
           ELSE /\ dir' = move(dir, stem, EncodeDuration(duration))
                /\ hist' = [hist EXCEPT
                      !.finals = @ + 1,
                      !.cur = {},
                      !.clips = @ \cup {[ start |-> stem,
                                          dur |-> EncodeDuration(duration),
                                          len |-> duration,
                                          frames |-> hist.cur,
                                          early |-> hist.early,
                                          short |-> (pc = "fin") ]}]

\* after the inner loop (main.py:147-160): close the writer, then discard the
\* clip or rename it to its final name
Finalize ==
    /\ pc = "fin" \/ (pc = "rec" /\ back_pad >= pad)
    /\ Closed(time_read(v) - det.start_offset)
    /\ pc' = "scan"
    /\ UNCHANGED << src, fps, target_fps, padding, v, ret, backlog, last_frame,
                    det, back_pad, end_time, err, run >>

\* __main__, after find_changes has returned (main.py:179-180): the source
\* is renamed to .bak, and gen_all_videos does not find it any more
Archive ==
    /\ pc = "done"
    /\ pc' = "archived"
    /\ UNCHANGED << src, fps, target_fps, padding, v, ret, backlog, last_frame,
                    det, back_pad, end_time, vw, dir, err, run, hist >>

\* the process is killed: what it wrote stays in the output folder.  Killed
\* after find_changes has returned and before the source is renamed
\* (pc = "done"), it leaves the complete output and the source in place.
Kill ==
    /\ pc \in {"scan", "rec", "fin", "done"}
    /\ pc' = "killed"
    /\ vw' = {}
    /\ hist' = [hist EXCEPT !.killedAt = pc]
    /\ UNCHANGED << src, fps, target_fps, padding, v, ret, backlog, last_frame,
                    det, back_pad, end_time, dir, err, run >>

\* __main__ is run again: the source is still there when the run before was
\* killed or ended with an exception, and find_changes is called over the
\* same source and the same output folder
Rerun ==
    /\ pc \in {"killed", "aborted"}
    /\ run < MaxRuns
    /\ run' = run + 1
    /\ v' = NewCapture
    /\ ret' = [s |-> FALSE, f |-> NoFrame]
    /\ pc' = "scan"
    /\ backlog' = << >>
    /\ last_frame' = NoFrame
    /\ det' = NoDet
    /\ back_pad' = 0
    /\ end_time' = 0
    /\ vw' = {}
    /\ err' = ""
    /\ hist' = [NoHist EXCEPT
                  !.prevEnd = IF pc = "killed" /\ hist.killedAt = "done"
                              THEN "done" ELSE pc,
                  !.dir0 = dir, !.firstDir = hist.firstDir,
                  !.stale = IF pc = "killed" /\ InProgress(det.filename) \in dir
                            THEN det.filename ELSE None]
    /\ UNCHANGED << src, fps, target_fps, padding, dir >>

Next == Scan \/ Record \/ Finalize \/ Archive \/ Kill \/ Rerun

Spec == Init /\ [][Next]_vars

(***************************************************************************)
(* The same runs over longer sources with up to two stretches of activity, *)
(* started on an empty output folder.                                      *)
(***************************************************************************)
\* q0 still frames, b1 frames that each differ from the one before, q1 frames
\* that repeat the last one, then b2 frames that each differ again
Burst(q0, b1, q1, b2) ==
    [i \in 1..(q0 + b1 + q1 + b2) |->
        100 * ((Min(Max(i - q0, 0), b1) + Min(Max(i - q0 - b1 - q1, 0), b2)) % 2)]

LongSources ==
    {Burst(q0, b1, q1, b2) : q0 \in 1..2, b1 \in 5..7, q1 \in 1..3, b2 \in 0..6}

LongPaddings == {Sec \div 2, Sec, 2 * Sec}

LongInit ==
    /\ \E rt \in PipelineRates :
         /\ fps = rt[1]
         /\ target_fps = rt[2]
         /\ src \in {Stretch(p, Max(1, rt[1] \div rt[2])) : p \in LongSources}
    /\ padding \in LongPaddings
    /\ v = NewCapture
    /\ ret = [s |-> FALSE, f |-> NoFrame]
    /\ pc = "scan"
    /\ backlog = << >>
    /\ last_frame = NoFrame
    /\ det = NoDet
    /\ back_pad = 0
    /\ end_time = 0
    /\ vw = {}
    /\ dir = {}
    /\ err = ""
    /\ run = 1
    /\ hist = NoHist

SpecLong == LongInit /\ [][Next]_vars

(***************************************************************************)
(* The same runs at a rate whose frame period is no binary fraction of a   *)
(* second, over sources long enough for a clip to be kept.                 *)
(***************************************************************************)
FineRate == 5

FineSources ==
    {Burst(q0, b1, q1, 0) : q0 \in 6..7, b1 \in 30..33, q1 \in {3, 6}}

FineInit ==
    /\ fps = FineRate
    /\ target_fps = FineRate
    /\ src \in FineSources
    /\ padding = Sec
    /\ v = NewCapture
    /\ ret = [s |-> FALSE, f |-> NoFrame]
    /\ pc = "scan"
    /\ backlog = << >>
    /\ last_frame = NoFrame
    /\ det = NoDet
    /\ back_pad = 0
    /\ end_time = 0
    /\ vw = {}
    /\ dir = {}
    /\ err = ""
    /\ run = 1
    /\ hist = NoHist

SpecFine == FineInit /\ [][Next]_vars

(***************************************************************************)
(* Properties.                                                             *)
(***************************************************************************)
FinalizedFiles(d) == {x \in d : x.dur # NoDur}
InProgressFiles(d) == {x \in d : x.dur = NoDur}

\* at most one in-progress and at most one finalized file per clip identity
AtMostOnePerTriple(d) ==
    \A x, y \in d :
        (x.start = y.start /\ ((x.dur = NoDur) <=> (y.dur = NoDur))) => x = y

\* C1: in a second run over the same source, started after find_changes has
\* completed a first run (the process was killed before the source was
\* archived) with the output folder untouched, a detection whose name has
\* exactly one finalized file
\* takes the resume path (skip() performed, no writer, the run goes on), and
\* when the run is done the finalized files are those the first run left.
C1_IdempotentRerun ==
    (run >= 2 /\ hist.prevEnd = "done") =>
        /\ det.files = 1 => (pc # "aborted" /\ hist.skips >= 1 /\ vw = {})
        /\ pc = "done" => FinalizedFiles(dir) = FinalizedFiles(hist.dir0)

\* C2: starting from an output folder with at most one in-progress and at
\* most one finalized file per (start, channel, rate), every reachable state
\* of every run, a killed one included, has at most one of each.
C2_OnePerTriple == AtMostOnePerTriple(hist.firstDir) => AtMostOnePerTriple(dir)

C2_Witness ==
    /\ AtMostOnePerTriple(hist.firstDir)
    /\ hist.firstDir # {}
    /\ hist.finals >= 1
    /\ Cardinality(FinalizedFiles(dir)) >= 2

\* C3: the backlog never holds more than N = padding seconds x target rate
\* frames.
C3_BacklogBounded == Len(backlog) * Sec <= padding * target_fps

\* C4: at most one writer is open at any time; one is open only while a clip
\* is being recorded (it is the current clip's), and none is open any more
\* once the run is back in SCANNING, has finished or has aborted.
C4_OneWriter ==
    /\ Cardinality(vw) <= 1
    /\ vw # {} => (pc \in {"rec", "fin"} /\ vw = {det.filename})
    /\ pc \in {"rec", "fin"} => vw = {det.filename}

\* a clip was cut short by the end of the stream, and the run is back in SCANNING
C4_Witness ==
    /\ pc = "scan"
    /\ hist.fails >= 1
    /\ hist.finals >= 1
    /\ vw = {}

\* ceil(K / (native_rate / target_rate))
CeilFrames == -((-(total * target_fps)) \div fps)

\* C5: for native_rate >= target_rate the frames returned before the first
\* exhausted read number ceil(K / (native_rate / target_rate)), give or take 1.
C5_FrameCount ==
    (fps >= target_fps /\ hist.skips = 0 /\ hist.firstExhaust # None) =>
        Abs(hist.firstExhaust - CeilFrames) <= 1

\* C6 as claimed: with native_rate = 2 x target_rate every frame returned is a
\* 50/50 blend of two consecutive source frames (the first frame, which the
\* code documents as "always the same as the source", is left out here).
C6_HalfBlend ==
    (fps = 2 * target_fps /\ hist.skips = 0 /\ ret.s /\ frames_read(v) >= 2) =>
        (ret.f.w = 50 /\ ret.f.b = ret.f.a + 1)

\* C6, amended: with native_rate = 2 x target_rate every frame returned is a
\* source frame unmodified, the i-th (from 0) being source frame 2i; nothing
\* is blended and no lookahead frame is decoded.
C6_EverySecondFrame ==
    (fps = 2 * target_fps /\ hist.skips = 0 /\ ret.s) =>
        /\ ret.f = Original(2 * (frames_read(v) - 1))
        /\ v._next_frame = None
        /\ v._orig_frames_read = 2 * frames_read(v) - 1

C6_Witness ==
    fps = 2 * target_fps /\ hist.skips = 0 /\ ret.s /\ frames_read(v) >= 3

\* C7: with native_rate = target_rate the weight is 0 on every read, the i-th
\* frame returned (from 0) is source frame i unmodified, and no lookahead
\* frame is decoded.
C7_SameRate ==
    (fps = target_fps /\ hist.skips = 0) =>
        /\ weight(v) = 0
        /\ v._next_frame = None
        /\ v._orig_frames_read = frames_read(v)
        /\ ret.s => ret.f = Original(frames_read(v) - 1)

C7_Witness ==
    fps = target_fps /\ hist.skips = 0 /\ ret.s /\ frames_read(v) >= 3

\* C8: skip(duration), with the duration the resume path computes, followed
\* by read() never leaves time_read smaller than it was before the skip.
C8_SkipMonotone ==
    (hist.skips >= 1 /\ hist.readsSinceSkip >= 1) =>
        time_read(v) >= hist.tBeforeSkip

\* the resume path of a second run, over a folder that the first run alone
\* has filled, computes a negative duration for skip()
ResumeNegative ==
    /\ run = 2 /\ hist.firstDir = {} /\ hist.prevEnd = "done"
    /\ det.files = 1 /\ hist.skipArg < 0

\* a source with one isolated deviating stretch between quiet frames
IsolatedSpike ==
    /\ Cardinality({i \in 1..total : src[i] # src[1]}) = Max(1, fps \div target_fps)
    /\ src[total] = src[1]

\* C9: a clip that reaches FINALIZING with a significant span under 5 s has
\* its in-progress file deleted and no finalized file created; a source with
\* a single isolated significant frame leaves no finalized file.
C9_Discard ==
    /\ [][ ( /\ pc \in {"rec", "fin"} /\ pc' = "scan"
             /\ end_time - det.timestamp_indicator < MIN_SIGNIFICANT_FRAME_LENGTH )
           => ( /\ InProgress(det.filename) \in dir
                /\ dir' = dir \ {InProgress(det.filename)} ) ]_vars
    /\ []( (IsolatedSpike /\ fps >= target_fps) =>
             ( /\ hist.finals = 0
               /\ FinalizedFiles(dir) = FinalizedFiles(hist.firstDir) ) )

C9_Witness ==
    IsolatedSpike /\ fps >= target_fps /\ pc = "done" /\ hist.discards >= 1

\* C10: a detection that finds more than one finalized file for its name
\* aborts the run: no writer is open, and nothing is read, finalized or
\* discarded any more in that run.
C10_AmbiguousFatal ==
    /\ []( det.files > 1 =>
             ( /\ pc = "aborted" /\ err = "TooManyClips"
               /\ vw = {}
               /\ InProgress(det.filename) \notin dir ) )
    /\ [][ (pc = "aborted" /\ run' = run) => UNCHANGED << v, dir, vw, hist >> ]_vars

C10_Witness == det.files > 1 /\ pc = "aborted" /\ frames_read(v) < total

\* the previous run was killed while it recorded the clip hist.stale: it left
\* that clip's in-progress file and no finalized file for it
CrashedRecording ==
    /\ run >= 2 /\ hist.prevEnd = "killed" /\ hist.firstDir = {}
    /\ hist.stale # None
    /\ InProgress(hist.stale) \in hist.dir0
    /\ glob(hist.dir0, hist.stale) = {}

\* C11: a run that follows a run killed while RECORDING does not end with an
\* exception, and when it has ended the stale in-progress file is gone (it
\* was deleted at the detection and the clip was written again and finalized
\* or discarded), as after one uninterrupted run on an empty folder.
C11_CrashRecovery ==
    (CrashedRecording /\ pc \in {"done", "aborted"}) =>
        /\ err = ""
        /\ InProgress(hist.stale) \notin dir

\* the same, when the killed run had not finalized any clip before
C11_FirstClipRecovered ==
    (CrashedRecording /\ FinalizedFiles(hist.dir0) = {} /\ pc \in {"done", "aborted"}) =>
        /\ err = ""
        /\ InProgressFiles(dir) = {}

\* read() looks at the object through its outlook only: the success flag and
\* the outlook after the call are the same for the object moved back to the
\* start of the stream's current frame with its counters cleared.  This is
\* for positions that are whole numbers of 2^-20 of a frame, which the
\* additions of read() keep exact; every position that read() alone reaches
\* at these rates is one.
ReadByOutlook ==
    IsShort(v._next_pos.m) =>
        LET w == [v EXCEPT !._next_pos = mod1(@), !._cur_pos = Zero,
                           !._read_count = 0, !._orig_frames_read = 0]
        IN  /\ read(w).s = read(v).s
            /\ read(w).raised = read(v).raised
            /\ Outlook(read(w).r) = Outlook(read(v).r)

\* C12: repeated read() calls eventually return exhausted.  read() is a
\* function of the object's outlook (ReadByOutlook), so on the way to the
\* exhausted read no outlook can come back: here, the outlook after the first
\* read() that succeeded with the decoder drained is never met again after a
\* later successful read().
C12_ReadExhausts ==
    ~( /\ hist.skips = 0 /\ hist.marked /\ ret.s
       /\ frames_read(v) > hist.markAt
       /\ Outlook(v) = hist.mark )

\* for native rates at or above the target rate, and for the rates below it
\* whose increment is not 0.5 or 0.75 of a frame, the outlook never comes back
C12_NoLoopElsewhere == (round2(incr) \notin {50, 75}) => C12_ReadExhausts

\* the resampled stream of a source whose native rate is a whole multiple of
\* the target rate: resampled frame i is source frame i * fps / target_fps
Resampled(i) == src[(fps \div target_fps) * i + 1]
ResampledLen == total \div (fps \div target_fps)

\* the resampled frames that differ significantly from the frame before them
SignificantFrames ==
    {i \in 1..(ResampledLen - 1) : Abs(Resampled(i) - Resampled(i - 1)) > 5}
FirstSignificant == CHOOSE i \in SignificantFrames : \A j \in SignificantFrames : i <= j
LastSignificant == CHOOSE i \in SignificantFrames : \A j \in SignificantFrames : i >= j
FrameTime(i) == (i * Sec) \div target_fps

\* the significant frames fill one interval [a, b] with a >= padding and the
\* frame at b + padding still in the stream; b - a is at least the minimum
\* significant span, so that the discard rule does not apply
SingleInterval ==
    /\ SignificantFrames # {}
    /\ SignificantFrames = FirstSignificant..LastSignificant
    /\ FrameTime(FirstSignificant) >= padding
    /\ FrameTime(LastSignificant) + padding <= FrameTime(ResampledLen - 1)
    /\ FrameTime(LastSignificant) - FrameTime(FirstSignificant)
          >= MIN_SIGNIFICANT_FRAME_LENGTH

OneClipForInterval ==
    /\ Cardinality(FinalizedFiles(dir)) = 1
    /\ \A x \in FinalizedFiles(dir) :
         /\ x.start = Stem(FrameTime(FirstSignificant) - padding)
         /\ parse_video_clip_file(x) >= 2 * padding
         /\ parse_video_clip_file(x) <=
              FrameTime(LastSignificant) - FrameTime(FirstSignificant) + 2 * padding

\* C13: a complete run on an empty output folder over a source with a single
\* significant interval [a, b] leaves exactly one finalized clip, named for
\* the start a - padding, with a duration between 2 x padding and
\* (b - a) + 2 x padding.
C13_SingleInterval ==
    (run = 1 /\ hist.dir0 = {} /\ pc = "done" /\ SingleInterval) => OneClipForInterval

\* the same for paddings of at least two seconds, where one frame compared
\* with a stale baseline does not end the clip
C13_PaddedInterval ==
    (run = 1 /\ hist.dir0 = {} /\ pc = "done" /\ SingleInterval /\ pad >= 2)
        => OneClipForInterval

\* C14: whenever the change detector is called on a frame, in SCANNING or in
\* RECORDING, the baseline it is given shows the frame read immediately
\* before that frame.
C14_PreviousFrameBaseline ==
    hist.baseline # NoFrame => Pixel(hist.baseline) = Pixel(hist.before)

\* while RECORDING, from the second frame of the clip on, the baseline is the
\* frame read immediately before
C14_RecordingBaseline ==
    (pc = "rec" /\ hist.baseline # NoFrame
       /\ frames_read(v) - 1 > det.start_frame_idx + 1)
        => hist.baseline = hist.before

\* the read() just made succeeded, without a skip() before it, at a native
\* rate not below the target rate, and the source still had the frames after
\* the position it landed on
BlendCase ==
    /\ pc = "rs" /\ hist.skips = 0 /\ ret.s /\ fps >= target_fps
    /\ Ceil100(round2(v._next_pos)) + 1 < total

\* C15: a read() landing on position p with fractional part w # 0 returns
\* w x (source frame floor(p)) + (1 - w) x (source frame floor(p) + 1); with
\* w = 0 it returns source frame p unmodified.
C15_BlendFloor ==
    BlendCase =>
        LET p == round2(v._next_pos)
            w == p % 100
        IN  IF w = 0 THEN ret.f = Original(p \div 100)
            ELSE ret.f = addWeighted(p \div 100, w, (p \div 100) + 1)

\* what read() returns instead: the blend takes the source frames ceil(p) and
\* ceil(p) + 1, the skip loop having consumed frames up to ceil(p)
C15_BlendCeil ==
    BlendCase =>
        LET p == round2(v._next_pos)
            w == p % 100
        IN  IF w = 0 THEN ret.f = Original(p \div 100)
            ELSE ret.f = addWeighted(Ceil100(p), w, Ceil100(p) + 1)

\* one step taken in RECORDING, for a quiet streak that ends the clip at
\* limit / Sec frames: a frame the detector finds significant resets the
\* streak and moves the last significant time to that frame's time, a quiet
\* frame adds 1 to the streak, a failed read ends the clip; no frame is read
\* once the streak has reached the limit, and the clip is not left for
\* SCANNING before it has
StreakRule(limit) ==
    /\ (pc = "rec" /\ v' # v) => back_pad * Sec < limit
    /\ (pc = "rec" /\ v' # v /\ ~ret'.s) => pc' = "fin"
    /\ (pc = "rec" /\ v' # v /\ ret'.s) =>
          /\ pc' = "rec"
          /\ IF has_significant_change(ret'.f, last_frame)
             THEN back_pad' = 0 /\ end_time' = time_read(v')
             ELSE back_pad' = back_pad + 1 /\ end_time' = end_time
    /\ (pc = "rec" /\ pc' = "scan") => back_pad * Sec >= limit

\* C16: while RECORDING a significant frame resets the quiet streak and sets
\* the last significant time, a quiet frame increments the streak, and the
\* clip leaves RECORDING exactly when the streak reaches
\* padding x target rate frames or read() signals the end of the stream.
C16_QuietStreak == [][StreakRule(padding * target_fps)]_vars

\* the same with the limit the code computes, pad = padding.seconds x target
\* rate: the whole seconds of the padding only
C16_StreakToPad == [][StreakRule(pad * Sec)]_vars

\* skip(d) has just returned, for a duration d >= 0 that the source could
\* still supply
SkipCase ==
    /\ pc = "rs" /\ hist.skips >= 1 /\ hist.readsSinceSkip = 0
    /\ hist.skipArg >= 0
    /\ hist.capBeforeSkip + TruncDiv(hist.skipArg * fps, Sec) <= total

\* skip(d) consumed int(d x native_rate) source frames and returned that count
\* with success true
SkipCount ==
    /\ hist.skipCount = TruncDiv(hist.skipArg * fps, Sec)
    /\ v.cap - hist.capBeforeSkip = hist.skipCount
    /\ hist.skipOk

\* C17: skip(d), d >= 0 within the source, consumes int(d x native_rate)
\* source frames, returns that count with success true, and advances
\* time_read by d, whatever the two rates are.
C17_SkipAdvances ==
    SkipCase => (SkipCount /\ time_read(v) - hist.tBeforeSkip = hist.skipArg)

\* the count and the success flag are as claimed at every pair of rates; the
\* elapsed time advances by d x target_rate / native_rate (to the microsecond
\* that timedelta rounds to), which is d when the two rates are equal
C17_SkipScaled ==
    SkipCase =>
        /\ SkipCount
        /\ Abs((time_read(v) - hist.tBeforeSkip) * fps - hist.skipArg * target_fps)
              <= fps

\* C18: a failed read() while RECORDING does not abort the run: the clip is
\* still open and goes through FINALIZING, where the writer is closed and the
\* clip is renamed or, under the significant-span rule, deleted; the run is
\* then back in SCANNING; and when the run has returned normally no
\* in-progress file that it created is left.
C18_EndOfStreamFinalizes ==
    /\ []( pc = "fin" =>
             ( /\ err = "" /\ ~ret.s
               /\ vw = {det.filename}
               /\ InProgress(det.filename) \in dir ) )
    /\ [][ (pc = "fin" /\ pc' # "killed") =>
             ( /\ pc' = "scan" /\ err' = "" /\ vw' = {}
               /\ InProgress(det.filename) \notin dir'
               /\ FinalizedFiles(dir') \ FinalizedFiles(dir) =
                    IF end_time - det.timestamp_indicator < MIN_SIGNIFICANT_FRAME_LENGTH
                    THEN {}
                    ELSE {Finalized(det.filename,
                                    EncodeDuration(time_read(v) - det.start_offset))} ) ]_vars
    /\ []( pc = "done" =>
             ( /\ err = "" /\ vw = {}
               /\ InProgressFiles(dir) \subseteq InProgressFiles(hist.dir0)
               /\ det.files = 0 => InProgress(det.filename) \notin dir ) )

\* a run has returned normally after a clip cut short by the end of the
\* stream was finalized
C18_Witness ==
    /\ pc = "done" /\ hist.fails >= 2
    /\ \E c \in hist.clips : c.short

\* C19: the clips finalized in one run do not overlap: no resampled frame
\* was written to two of them.
C19_NoOverlap ==
    \A c1, c2 \in hist.clips : c1 # c2 => c1.frames \cap c2.frames = {}

\* the frames read while RECORDING are written to the clip being recorded
\* only: what two clips of a run share are pre-roll frames of the later one
C19_OnlyPreRollShared ==
    \A c1, c2 \in hist.clips :
        (c1 # c2 /\ c1.start < c2.start) =>
            Cardinality(c1.frames \cap c2.frames) < pad

\* the time that the frames written to a clip last at the target rate
FramesDuration(c) == (Cardinality(c.frames) * Sec) \div target_fps

\* that time as a clip's name encodes it (hundredths of a second)
WrittenDuration(c) == EncodeDuration(FramesDuration(c))

\* C20: the duration encoded in the name of every finalized clip is the
\* number of frames written to the clip divided by the target rate.
C20_DurationIsFrames ==
    \A c \in hist.clips : c.dur = WrittenDuration(c)

\* a clip detected after the backlog had filled and ended by the quiet
\* streak lasts as long as its frames, and its name encodes that duration
C20_FullClipDuration ==
    \A c \in hist.clips :
        (~c.early /\ ~c.short) =>
            c.len = FramesDuration(c) /\ c.dur = WrittenDuration(c)

\* the two cases the claim names are one frame period off: a clip detected
\* before the backlog had filled holds one frame more than its duration says
\* (its start is clamped to 0 and the frame at time 0 is written too), and a
\* clip cut short by the end of the stream holds one frame less (the failed
\* read() has advanced the position)
C20_OneFrameOff ==
    \A c \in hist.clips :
        /\ (c.early /\ ~c.short /\ pad >= 1) =>
              c.len = FramesDuration(c) - Sec \div target_fps
        /\ (~c.early /\ c.short) =>
              c.len = FramesDuration(c) + Sec \div target_fps

\* the name of a finalized clip encodes its duration to within a hundredth of
\* a second, never more than the duration
EncodedWithinHundredth ==
    \A c \in hist.clips :
        c.len - 10000 <= c.dur * 10000 /\ c.dur * 10000 <= c.len

\* a clip lasting a whole number of hundredths of a second whose name encodes
\* one hundredth less
EncodedBelow ==
    \E c \in hist.clips : c.len % 10000 = 0 /\ c.dur * 10000 = c.len - 10000

\* at rates whose frame period is a multiple of a quarter of a second the
\* encoded duration is the duration
EncodedExactly ==
    target_fps \in Targets =>
        \A c \in hist.clips : c.dur * 10000 = c.len

====
